---- MODULE Spec2Model ----
(***************************************************************************)
(* LegalTalk statute identification pipeline: the citation normalizer      *)
(* (src/src/utils.py), the regex citation extractor                        *)
(* (src/src/regex_mapper.py), the lexical similarity mapper                *)
(* (src/src/bert_mapper.py), the fusion reranker (src/src/graph_mapper.py) *)
(* and the orchestrator (src/src/statute_ensemble.py).                     *)
(*                                                                         *)
(* Python strings are sequences of one-character strings. Python floats    *)
(* are exact rationals [n, d] in lowest terms (d > 0): the model does not  *)
(* round.                                                                  *)
(***************************************************************************)
EXTENDS Integers, Sequences, FiniteSets, TLC

VARIABLES
    raw,            \* normalize_to_ipc: the argument
    canonical,      \* normalize_to_ipc(raw), Pending before the call
    recanonical,    \* normalize_to_ipc(canonical), Pending before the call
    text,           \* map_statutes_with_regex: the argument
    hits,           \* map_statutes_with_regex(text), Pending before the call
    regex_probs,    \* graph_based_rerank: first argument
    bert_probs,     \* graph_based_rerank: second argument
    top_k,          \* graph_based_rerank: third argument
    ranked,         \* graph_based_rerank's result, Pending before the call
    swapped,        \* graph_based_rerank(bert_probs, regex_probs, top_k)
    a,              \* _jaccard: first token set
    b,              \* _jaccard: second token set
    score,          \* _jaccard(a, b), Pending before the call
    token,          \* a section token the extractor captured
    forms,          \* normalize_to_ipc of the token's three surface forms
    pipeline,       \* the StatutePipeline object: NoneVal before construction
    runs,           \* the StatutePipeline.run invocations, by invocation
    hash_order      \* the process's iteration order of each set of ids

vars == <<raw, canonical, recanonical, text, hits, regex_probs, bert_probs,
          top_k, ranked, swapped, a, b, score, token, forms, pipeline, runs,
          hash_order>>

(***************************************************************************)
(* Values.                                                                 *)
(***************************************************************************)

\* Python's None. No string of the model equals it: strings hold
\* one-character elements only.
NoneVal == <<"<None>">>

\* A result not computed yet.
Pending == <<"<pending>">>

\* A variable another specification owns.
Unused == <<"<unused>">>

(***************************************************************************)
(* Characters.                                                             *)
(***************************************************************************)

LowerLetters ==
    <<"a", "b", "c", "d", "e", "f", "g", "h", "i", "j", "k", "l", "m",
      "n", "o", "p", "q", "r", "s", "t", "u", "v", "w", "x", "y", "z">>

UpperLetters ==
    <<"A", "B", "C", "D", "E", "F", "G", "H", "I", "J", "K", "L", "M",
      "N", "O", "P", "Q", "R", "S", "T", "U", "V", "W", "X", "Y", "Z">>

DigitChars == <<"0", "1", "2", "3", "4", "5", "6", "7", "8", "9">>

LowerSet == {LowerLetters[i] : i \in DOMAIN LowerLetters}

UpperSet == {UpperLetters[i] : i \in DOMAIN UpperLetters}

DigitSet == {DigitChars[i] : i \in DOMAIN DigitChars}

\* \s of the re module, on the characters the model uses.
SpaceSet == {" "}

IsLetter(c) == c \in LowerSet \/ c \in UpperSet

IsDigit(c) == c \in DigitSet

\* \w of the re module.
IsWordChar(c) == IsLetter(c) \/ IsDigit(c) \/ c = "_"

ToUpper(c) ==
    IF c \in LowerSet
    THEN UpperLetters[CHOOSE i \in DOMAIN LowerLetters : LowerLetters[i] = c]
    ELSE c

ToLower(c) ==
    IF c \in UpperSet
    THEN LowerLetters[CHOOSE i \in DOMAIN UpperLetters : UpperLetters[i] = c]
    ELSE c

DigitVal(c) == (CHOOSE i \in DOMAIN DigitChars : DigitChars[i] = c) - 1

(***************************************************************************)
(* Strings.                                                                *)
(***************************************************************************)

\* str.upper() and str.lower()
Upper(s) == [i \in 1..Len(s) |-> ToUpper(s[i])]

Lower(s) == [i \in 1..Len(s) |-> ToLower(s[i])]

\* s[i:] with i counted from 1
From(s, i) == SubSeq(s, i, Len(s))

\* s.startswith(p)
StartsWith(s, p) == Len(s) >= Len(p) /\ SubSeq(s, 1, Len(p)) = p

\* The text at position i (from 1) starts with p.
StartsAt(s, i, p) ==
    i + Len(p) - 1 <= Len(s) /\ SubSeq(s, i, i + Len(p) - 1) = p

\* The first position from i on whose character is not in chars
\* (Len(s) + 1 when there is none).
RECURSIVE SkipChars(_, _, _)
SkipChars(s, i, chars) ==
    IF i <= Len(s) /\ s[i] \in chars THEN SkipChars(s, i + 1, chars) ELSE i

\* The last position up to i whose character is not in chars (0 when none).
RECURSIVE SkipCharsBack(_, _, _)
SkipCharsBack(s, i, chars) ==
    IF i >= 1 /\ s[i] \in chars THEN SkipCharsBack(s, i - 1, chars) ELSE i

\* s.lstrip(chars), s.strip(chars) and s.strip()
LStrip(s, chars) == From(s, SkipChars(s, 1, chars))

Strip(s, chars) ==
    LET lo == SkipChars(s, 1, chars)
        hi == SkipCharsBack(s, Len(s), chars)
    IN  IF lo > hi THEN <<>> ELSE SubSeq(s, lo, hi)

StripSpace(s) == Strip(s, SpaceSet)

\* s.replace(old, new): the non-overlapping occurrences, left to right
RECURSIVE ReplaceFrom(_, _, _, _)
ReplaceFrom(s, i, old, new) ==
    IF i > Len(s) THEN <<>>
    ELSE IF StartsAt(s, i, old)
         THEN new \o ReplaceFrom(s, i + Len(old), old, new)
         ELSE <<s[i]>> \o ReplaceFrom(s, i + 1, old, new)

Replace(s, old, new) == ReplaceFrom(s, 1, old, new)

\* int(s) of a string of decimal digits
RECURSIVE IntOf(_)
IntOf(s) ==
    IF s = <<>> THEN 0
    ELSE 10 * IntOf(SubSeq(s, 1, Len(s) - 1)) + DigitVal(s[Len(s)])

(***************************************************************************)
(* Citation normalizer: src/src/utils.py                                   *)
(***************************************************************************)

KwSection == <<"S", "E", "C", "T", "I", "O", "N">>

KwSec == <<"S", "E", "C">>

KwS == <<"S">>

KwIPC == <<"I", "P", "C">>

PrefixIPC == <<"I", "P", "C", "_">>

\* The years the normalizer takes for calendar years.
YearMin == 1700

YearMax == 2100

\* [0-9A-Z_]
IsCanonChar(c) == c \in DigitSet \/ c \in UpperSet \/ c = "_"

\* re.sub(r'^(SECTION|SEC|S)\.?\s*', '', s): the first alternative that
\* matches, an optional dot, then the white space after it.
StripSectionPrefix(s) ==
    LET k == IF StartsWith(s, KwSection) THEN Len(KwSection)
             ELSE IF StartsWith(s, KwSec) THEN Len(KwSec)
             ELSE IF StartsWith(s, KwS) THEN Len(KwS)
             ELSE 0
        d == IF k + 1 <= Len(s) /\ s[k + 1] = "." THEN k + 1 ELSE k
    IN  IF k = 0 THEN s ELSE From(s, SkipChars(s, d + 1, SpaceSet))

\* s.startswith("IPC_") or s.startswith("IPC-") or s.startswith("IPC ")
LooksCanonical(s) ==
    \/ StartsWith(s, KwIPC \o <<"_">>)
    \/ StartsWith(s, KwIPC \o <<"-">>)
    \/ StartsWith(s, KwIPC \o <<" ">>)

\* ReformatCanonical with the prefix added whether or not it is there.
ReformatCanonicalAlwaysPrefixed(s) ==
    PrefixIPC \o SelectSeq(Replace(Replace(s, <<"-">>, <<"_">>), <<" ">>, <<"_">>),
                           IsCanonChar)

\* The early return: dashes and spaces to underscores, every other
\* character outside [0-9A-Z_] dropped.
ReformatCanonical(s) ==
    LET s2 == SelectSeq(Replace(Replace(s, <<"-">>, <<"_">>), <<" ">>, <<"_">>),
                        IsCanonChar)
    IN  IF StartsWith(s2, PrefixIPC) THEN s2
        ELSE PrefixIPC \o LStrip(s2, {"I", "P", "C", "_"})

\* re.fullmatch(r'(\d{4})', s) with 1700 <= int <= 2100
IsYear(s) ==
    /\ Len(s) = 4
    /\ \A i \in 1..Len(s) : IsDigit(s[i])
    /\ YearMin <= IntOf(s)
    /\ IntOf(s) <= YearMax

\* re.sub(r'\)\s*\(', '_', s)
RECURSIVE JoinParensFrom(_, _)
JoinParensFrom(s, i) ==
    IF i > Len(s) THEN <<>>
    ELSE LET j == SkipChars(s, i + 1, SpaceSet)
         IN  IF s[i] = ")" /\ j <= Len(s) /\ s[j] = "("
             THEN <<"_">> \o JoinParensFrom(s, j + 1)
             ELSE <<s[i]>> \o JoinParensFrom(s, i + 1)

\* s.replace('(', '_').replace(')', '_') after the join
ParensToUnderscores(s) ==
    Replace(Replace(JoinParensFrom(s, 1), <<"(">>, <<"_">>), <<")">>, <<"_">>)

\* re.sub(r'_+', '_', s)
RECURSIVE CollapseUnderscoresFrom(_, _)
CollapseUnderscoresFrom(s, i) ==
    IF i > Len(s) THEN <<>>
    ELSE IF s[i] = "_"
         THEN <<"_">> \o CollapseUnderscoresFrom(s, SkipChars(s, i, {"_"}))
         ELSE <<s[i]>> \o CollapseUnderscoresFrom(s, i + 1)

\* The clean-up path after the year test.
CleanSection(s) ==
    Strip(CollapseUnderscoresFrom(SelectSeq(ParensToUnderscores(s), IsCanonChar), 1),
          {"_"})

normalize_to_ipc(x) ==
    IF x = <<>> THEN NoneVal
    ELSE LET s0 == StripSectionPrefix(StripSpace(Upper(x)))
         IN  IF LooksCanonical(s0) THEN ReformatCanonical(s0)
             ELSE LET s1 == Strip(Replace(s0, KwIPC, <<>>), {" ", ":", ",", ".", "-"})
                  IN  IF IsYear(s1) THEN NoneVal
                      ELSE LET s2 == CleanSection(s1)
                           IN  IF s2 = <<>> THEN NoneVal ELSE PrefixIPC \o s2

(***************************************************************************)
(* The normalizer on bounded inputs.                                       *)
(***************************************************************************)

\* Longest body of a raw string between its markers.
MaxBodyLen == 3

\* Years tried on each side of YearMin..YearMax.
YearPad == 3

\* Every string over alphabet of at most n characters.
StringsUpTo(alphabet, n) == UNION {[1..k -> alphabet] : k \in 0..n}

\* str(n) of a natural number
RECURSIVE DecimalOf(_)
DecimalOf(n) ==
    IF n < 10 THEN <<DigitChars[n + 1]>>
    ELSE DecimalOf(n \div 10) \o <<DigitChars[(n % 10) + 1]>>

BodyAlphabet == {"4", "b", "(", ")", "-", "_", " "}

RawPrefixes ==
    { <<>>,
      <<"S", "e", "c", "t", "i", "o", "n", " ">>,
      <<"s", "e", "c", ".">>,
      <<"S">>,
      <<"I", "P", "C", "_">>,
      <<"i", "p", "c", "-">>,
      <<"I", "P", "C", " ">>,
      <<"7">> }

RawSuffixes == { <<>>, <<" ", "I", "P", "C">>, <<".">> }

YearPrefixes ==
    { <<>>,
      <<"S", "e", "c", "t", "i", "o", "n", " ">>,
      <<"I", "P", "C", " ">> }

YearSuffixes == { <<>>, <<" ", "I", "P", "C">> }

\* raw denotes a year of YearMin..YearMax, bare or between markers.
DenotesYear(x) ==
    \E p \in YearPrefixes, q \in YearSuffixes :
        /\ Len(x) = Len(p) + 4 + Len(q)
        /\ SubSeq(x, 1, Len(p)) = p
        /\ SubSeq(x, Len(p) + 5, Len(x)) = q
        /\ IsYear(SubSeq(x, Len(p) + 1, Len(p) + 4))

RawInputs ==
    {p \o m \o q : p \in RawPrefixes, m \in StringsUpTo(BodyAlphabet, MaxBodyLen),
                   q \in RawSuffixes}
    \cup {p \o DecimalOf(y) \o q : p \in YearPrefixes, q \in YearSuffixes,
                                   y \in (YearMin - YearPad)..(YearMax + YearPad)}

\* The section tokens of the extractor's capture group: 1-3 digits, an
\* optional letter, an optional sub-clause, an optional hyphen-letter.
TokenNumbers == { <<"5">>, <<"3", "4">>, <<"4", "2", "0">>, <<"1", "2", "0">> }

TokenLetters == { <<>>, <<"B">>, <<"a">> }

TokenClauses == { <<>>, <<"(", "2", ")">>, <<"(", "g", ")">> }

TokenSuffixes == { <<>>, <<"-", "B">> }

Tokens ==
    {n \o l \o c \o h : n \in TokenNumbers, l \in TokenLetters,
                        c \in TokenClauses, h \in TokenSuffixes}

\* Each component's variables, and their value in the specifications of the
\* other components.
varsNormalize == <<raw, canonical, recanonical, token, forms>>

varsRegex == <<text, hits>>

varsFusion == <<regex_probs, bert_probs, top_k, ranked, swapped>>

varsJaccard == <<a, b, score>>

varsPipeline == <<pipeline, runs, hash_order>>

IdleNormalize ==
    /\ raw = Unused
    /\ canonical = Unused
    /\ recanonical = Unused
    /\ token = Unused
    /\ forms = Unused

IdleRegex == text = Unused /\ hits = Unused

IdleFusion ==
    /\ regex_probs = Unused
    /\ bert_probs = Unused
    /\ top_k = Unused
    /\ ranked = Unused
    /\ swapped = Unused

IdleJaccard == a = Unused /\ b = Unused /\ score = Unused

IdlePipeline == pipeline = Unused /\ runs = Unused /\ hash_order = Unused

otherThanNormalize == <<varsRegex, varsFusion, varsJaccard, varsPipeline>>

\* The three results before NormalizeForms.
FormsPending == [section |-> Pending, ipc |-> Pending, prefixed |-> Pending]

InitNormalize ==
    /\ \/ raw \in RawInputs /\ token = Unused
       \/ raw = Unused /\ token \in Tokens
    /\ canonical = Pending
    /\ recanonical = Pending
    /\ forms = FormsPending
    /\ IdleRegex /\ IdleFusion /\ IdleJaccard /\ IdlePipeline

\* canonical = normalize_to_ipc(raw)
Normalize ==
    /\ raw # Unused
    /\ canonical = Pending
    /\ canonical' = normalize_to_ipc(raw)
    /\ UNCHANGED <<raw, recanonical, token, forms, otherThanNormalize>>

\* normalize_to_ipc applied to the id it returned
Renormalize ==
    /\ canonical \notin {Pending, NoneVal}
    /\ recanonical = Pending
    /\ recanonical' = normalize_to_ipc(canonical)
    /\ UNCHANGED <<raw, canonical, token, forms, otherThanNormalize>>

\* normalize_to_ipc of "Section t", "t IPC" and "IPC_t"
NormalizeForms ==
    /\ token # Unused
    /\ forms = FormsPending
    /\ forms' =
           [section |-> normalize_to_ipc(<<"S", "e", "c", "t", "i", "o", "n", " ">> \o token),
            ipc |-> normalize_to_ipc(token \o <<" ", "I", "P", "C">>),
            prefixed |-> normalize_to_ipc(<<"I", "P", "C", "_">> \o token)]
    /\ UNCHANGED <<raw, canonical, recanonical, token, otherThanNormalize>>

NextNormalize == Normalize \/ Renormalize \/ NormalizeForms

SpecNormalize == InitNormalize /\ [][NextNormalize]_vars

\* C6 (as claimed): canonicalization does not depend on the surface form:
\* for every section token t the extractor can capture, "Section t",
\* "t IPC" and "IPC_t" normalize to the same id.
C6_SurfaceFormIndependent ==
    (token # Unused /\ forms # FormsPending) =>
        (forms.section = forms.ipc /\ forms.ipc = forms.prefixed)

\* C7: normalize_to_ipc is idempotent on its own output: for every raw x
\* with normalize_to_ipc(x) = c, an id, normalize_to_ipc(c) = c.
C7_Idempotent ==
    (raw # Unused /\ recanonical # Pending) => recanonical = canonical

\* C7's case: an id the early return produced by reformatting its input
\* (so not by handing it back), normalized again.
C7_Witness ==
    /\ raw # Unused
    /\ recanonical # Pending
    /\ LooksCanonical(StripSectionPrefix(StripSpace(Upper(raw))))
    /\ canonical # raw
    /\ recanonical = canonical

\* C8 (as claimed): a raw input that denotes a year of 1700..2100, bare or
\* with a section keyword or an IPC marker around it, normalizes to none.
C8_YearNeverStatute ==
    (raw # Unused /\ canonical # Pending /\ DenotesYear(raw)) =>
        canonical = NoneVal

(***************************************************************************)
(* Results of calls, rationals and sorting.                                *)
(***************************************************************************)

\* A call's result: NotCalled before the call, Returned(v) after it.
NotCalled == <<>>

Returned(v) == <<v>>

\* The empty dict.
EmptyMap == <<>>

\* Floats as exact non-negative rationals n/d in lowest terms.
RECURSIVE GCD(_, _)
GCD(m, n) == IF n = 0 THEN m ELSE GCD(n, m % n)

Rat(n, d) == [n |-> n \div GCD(n, d), d |-> d \div GCD(n, d)]

RatZero == Rat(0, 1)

RatOne == Rat(1, 1)

RatAdd(x, y) == Rat(x.n * y.d + y.n * x.d, x.d * y.d)

RatMul(x, y) == Rat(x.n * y.n, x.d * y.d)

\* x / y with y > 0
RatDiv(x, y) == Rat(x.n * y.d, x.d * y.n)

RatGt(x, y) == x.n * y.d > y.n * x.d

\* max() of a non-empty set of rationals
RatMax(S) == CHOOSE x \in S : \A y \in S : ~RatGt(y, x)

\* seq[:k], k of either sign
Slice(seq, k) ==
    IF k >= 0
    THEN SubSeq(seq, 1, IF k < Len(seq) THEN k ELSE Len(seq))
    ELSE SubSeq(seq, 1, IF Len(seq) + k > 0 THEN Len(seq) + k ELSE 0)

\* The orders a set can be iterated in.
Orders(S) ==
    {f \in [1..Cardinality(S) -> S] : {f[i] : i \in DOMAIN f} = S}

\* sorted(seq, key=..., reverse=True) and list.sort(key=..., reverse=True):
\* stable, so equal keys keep the order they came in. keys[i] is the key of
\* seq[i], a rational.
StableSortDesc(seq, keys) ==
    LET Before(j, i) == RatGt(keys[j], keys[i]) \/ (j < i /\ keys[j] = keys[i])
        Rank(i) == Cardinality({j \in DOMAIN seq : Before(j, i)}) + 1
    IN  [r \in 1..Len(seq) |-> seq[CHOOSE i \in DOMAIN seq : Rank(i) = r]]

\* sorted(seq, key=...): the same without reverse=True.
StableSortAsc(seq, keys) ==
    LET Before(j, i) == RatGt(keys[i], keys[j]) \/ (j < i /\ keys[j] = keys[i])
        Rank(i) == Cardinality({j \in DOMAIN seq : Before(j, i)}) + 1
    IN  [r \in 1..Len(seq) |-> seq[CHOOSE i \in DOMAIN seq : Rank(i) = r]]

(***************************************************************************)
(* Regex citation extractor: src/src/regex_mapper.py                       *)
(***************************************************************************)

\* (?:section|sections|sec|s\.?|§), in the order the alternatives are tried
\* (s\.? tries the dot first).
SectionKeywords ==
    << <<"s", "e", "c", "t", "i", "o", "n">>,
       <<"s", "e", "c", "t", "i", "o", "n", "s">>,
       <<"s", "e", "c">>,
       <<"s", ".">>,
       <<"s">>,
       <<"§">> >>

KwIpcLower == <<"i", "p", "c">>

KwIndian == <<"i", "n", "d", "i", "a", "n">>

KwPenal == <<"p", "e", "n", "a", "l">>

KwCode == <<"c", "o", "d", "e">>

\* \b at position i: a word character on exactly one side.
WordBoundary(s, i) ==
    (i > 1 /\ i - 1 <= Len(s) /\ IsWordChar(s[i - 1]))
        # (i >= 1 /\ i <= Len(s) /\ IsWordChar(s[i]))

\* The text at i starts with kw, under re.IGNORECASE.
StartsAtCI(s, i, kw) ==
    i + Len(kw) - 1 <= Len(s) /\ Lower(SubSeq(s, i, i + Len(kw) - 1)) = kw

\* [0-9]{1,3} at i: the digits taken.
DigitRun(s, i) ==
    LET e == SkipChars(s, i, DigitSet)
    IN  IF e - i > 3 THEN 3 ELSE e - i

\* (?:\([0-9A-Za-z]+\))? at j: the position after it.
AfterClause(s, j) ==
    IF j <= Len(s) /\ s[j] = "("
    THEN LET e == SkipChars(s, j + 1, DigitSet \cup LowerSet \cup UpperSet)
         IN  IF e > j + 1 /\ e <= Len(s) /\ s[e] = ")" THEN e + 1 ELSE j
    ELSE j

\* (?:[-][A-Za-z])? at j: the position after it.
AfterHyphen(s, j) ==
    IF j + 1 <= Len(s) /\ s[j] = "-" /\ IsLetter(s[j + 1]) THEN j + 2 ELSE j

\* The capture group at i, each optional part taken when it is there
\* (the letter only if letter): the position after it, i when no digit is
\* at i.
TokenEnd(s, i, letter) ==
    LET d == DigitRun(s, i)
        j == IF letter /\ i + d <= Len(s) /\ IsLetter(s[i + d])
             THEN i + d + 1 ELSE i + d
    IN  IF d = 0 THEN i ELSE AfterHyphen(s, AfterClause(s, j))

NoMatch == [end |-> 0, raw |-> <<>>]

\* _SECTION_PATTERN at position i: a word boundary, a keyword, white space,
\* the token.
MatchSectionAt(s, i) ==
    LET TokenAt(k) == SkipChars(s, i + Len(SectionKeywords[k]), SpaceSet)
        K == {k \in DOMAIN SectionKeywords :
                 /\ StartsAtCI(s, i, SectionKeywords[k])
                 /\ TokenEnd(s, TokenAt(k), TRUE) > TokenAt(k)}
    IN  IF ~WordBoundary(s, i) \/ K = {} THEN NoMatch
        ELSE LET k == CHOOSE x \in K : \A y \in K : x <= y
                 t == TokenAt(k)
                 e == TokenEnd(s, t, TRUE)
             IN  [end |-> e, raw |-> SubSeq(s, t, e - 1)]

\* \s*(?:ipc|indian\s+penal\s+code)\b at j: the position after it, 0 when
\* it does not match.
IpcKeywordEnd(s, j) ==
    LET t == SkipChars(s, j, SpaceSet)
        p == SkipChars(s, t + Len(KwIndian), SpaceSet)
        c == SkipChars(s, p + Len(KwPenal), SpaceSet)
    IN  IF StartsAtCI(s, t, KwIpcLower) /\ WordBoundary(s, t + Len(KwIpcLower))
        THEN t + Len(KwIpcLower)
        ELSE IF /\ StartsAtCI(s, t, KwIndian)
                /\ p > t + Len(KwIndian)
                /\ StartsAtCI(s, p, KwPenal)
                /\ c > p + Len(KwPenal)
                /\ StartsAtCI(s, c, KwCode)
                /\ WordBoundary(s, c + Len(KwCode))
             THEN c + Len(KwCode)
             ELSE 0

\* _IPC_PATTERN at position i: the token with its optional letter, and
\* when the keyword does not follow, the token without it.
MatchIpcAt(s, i) ==
    LET e1 == TokenEnd(s, i, TRUE)
        e0 == TokenEnd(s, i, FALSE)
    IN  IF ~WordBoundary(s, i) \/ e1 = i THEN NoMatch
        ELSE IF IpcKeywordEnd(s, e1) > 0
             THEN [end |-> IpcKeywordEnd(s, e1), raw |-> SubSeq(s, i, e1 - 1)]
             ELSE IF IpcKeywordEnd(s, e0) > 0
                  THEN [end |-> IpcKeywordEnd(s, e0), raw |-> SubSeq(s, i, e0 - 1)]
                  ELSE NoMatch

\* [match.group(1) for match in pattern.finditer(text)]: the matches left
\* to right, none overlapping.
RECURSIVE FindAll(_, _, _)
FindAll(pattern, s, i) ==
    IF i > Len(s) THEN <<>>
    ELSE LET m == IF pattern = "_SECTION_PATTERN" THEN MatchSectionAt(s, i)
                  ELSE MatchIpcAt(s, i)
         IN  IF m = NoMatch THEN FindAll(pattern, s, i + 1)
             ELSE <<m.raw>> \o FindAll(pattern, s, m.end)

\* The loop body over the captured tokens: counts is the dict in insertion
\* order.
RECURSIVE CountMentions(_, _)
CountMentions(raws, counts) ==
    IF raws = <<>> THEN counts
    ELSE LET id == normalize_to_ipc(Head(raws))
             at == {i \in DOMAIN counts : counts[i].statute_id = id}
         IN  IF id = NoneVal THEN CountMentions(Tail(raws), counts)
             ELSE IF at = {}
                  THEN CountMentions(Tail(raws),
                           Append(counts, [statute_id |-> id, mention |-> Head(raws),
                                           count |-> 1]))
                  ELSE CountMentions(Tail(raws),
                           [counts EXCEPT ![CHOOSE i \in at : TRUE].count = @ + 1])

\* The scan with the two patterns the other way round.
ScannedMentionsIpcFirst(s) ==
    FindAll("_IPC_PATTERN", s, 1) \o FindAll("_SECTION_PATTERN", s, 1)

\* for pattern in (_SECTION_PATTERN, _IPC_PATTERN): for match in ...
ScannedMentions(s) ==
    FindAll("_SECTION_PATTERN", s, 1) \o FindAll("_IPC_PATTERN", s, 1)

\* key=lambda kv: kv[1]["count"]
CountKeys(counts) == [i \in DOMAIN counts |-> Rat(counts[i].count, 1)]

map_statutes_with_regex(s) ==
    LET counts == CountMentions(ScannedMentions(s), <<>>)
    IN  StableSortDesc(counts, CountKeys(counts))

(***************************************************************************)
(* The extractor on bounded case texts.                                    *)
(***************************************************************************)

\* Most fragments a case text is made of.
MaxFrags == 3

\* The pieces case texts are made of: citations in both pattern families,
\* and prose without any.
TextFragments ==
    << <<"T", "h", "e", " ", "a", "c", "c", "u", "s", "e", "d", " ", "w",
         "a", "s", " ", "c", "h", "a", "r", "g", "e", "d", " ", "u", "n",
         "d", "e", "r", " ", "S", "e", "c", "t", "i", "o", "n", " ", "4",
         "2", "0", " ", "I", "P", "C", ".", " ">>,
       <<"S", "e", "c", "t", "i", "o", "n", " ", "4", "2", "0", " ", "I",
         "P", "C", ".", " ">>,
       <<"D", "i", "s", "h", "o", "n", "e", "s", "t", "l", "y", " ", "i",
         "n", "d", "u", "c", "e", "d", ".">>,
       <<"3", "0", "2", " ", "I", "P", "C", ",", " ">>,
       <<"s", "e", "c", ".", " ", "3", "4", " ">>,
       <<"1", "2", "0", "-", "B", " ", "I", "n", "d", "i", "a", "n", " ",
         "P", "e", "n", "a", "l", " ", "C", "o", "d", "e", ";", " ">>,
       <<"S", "e", "c", "t", "i", "o", "n", "s", " ", "3", "4", " ", "a",
         "n", "d", " ", "s", ".", "5", " ">>,
       <<"s", "e", "c", "t", "i", "o", "n", " ", "4", "2", "0", " ">> >>

RECURSIVE Flatten(_)
Flatten(seqs) == IF seqs = <<>> THEN <<>> ELSE Head(seqs) \o Flatten(Tail(seqs))

CaseTexts ==
    UNION {{Flatten([i \in 1..k |-> TextFragments[f[i]]]) :
               f \in [1..k -> DOMAIN TextFragments]} : k \in 0..MaxFrags}

InitRegex ==
    /\ text \in CaseTexts
    /\ hits = NotCalled
    /\ IdleNormalize /\ IdleFusion /\ IdleJaccard /\ IdlePipeline

\* hits = map_statutes_with_regex(text)
ExtractCitations ==
    /\ hits = NotCalled
    /\ hits' = Returned(map_statutes_with_regex(text))
    /\ UNCHANGED <<text, varsNormalize, varsFusion, varsJaccard, varsPipeline>>

NextRegex == ExtractCitations

SpecRegex == InitRegex /\ [][NextRegex]_vars

\* The phrase "Section 420 IPC" and the id it cites.
Phrase420 ==
    <<"S", "e", "c", "t", "i", "o", "n", " ", "4", "2", "0", " ", "I", "P",
      "C">>

Id420 == <<"I", "P", "C", "_", "4", "2", "0">>

\* The occurrences of phrase in s from position i on, none overlapping.
RECURSIVE CountOccurrences(_, _, _)
CountOccurrences(s, i, phrase) ==
    IF i > Len(s) THEN 0
    ELSE IF StartsAt(s, i, phrase)
         THEN 1 + CountOccurrences(s, i + Len(phrase), phrase)
         ELSE CountOccurrences(s, i + 1, phrase)

\* The text's only citations are occurrences of the phrase: without them
\* it holds no digit, so neither pattern has anything to capture.
OnlyCitesPhrase420(s) ==
    /\ CountOccurrences(s, 1, Phrase420) >= 1
    /\ \A i \in DOMAIN Replace(s, Phrase420, <<>>) :
           ~IsDigit(Replace(s, Phrase420, <<>>)[i])

\* C1 (as claimed): a case text whose only citations are k occurrences of
\* "Section 420 IPC" yields exactly one hit, IPC_420, with count k: each
\* textual citation adds one to the count.
C1_EachCitationCountsOnce ==
    (hits # NotCalled /\ OnlyCitesPhrase420(text)) =>
        /\ Len(hits[1]) = 1
        /\ hits[1][1].statute_id = Id420
        /\ hits[1][1].count = CountOccurrences(text, 1, Phrase420)

\* The text positions at which pattern captures a token that normalizes to
\* id, scanning s from position i on as finditer does.
RECURSIVE MentionsAt(_, _, _, _)
MentionsAt(pattern, s, i, id) ==
    IF i > Len(s) THEN {}
    ELSE LET m == IF pattern = "_SECTION_PATTERN" THEN MatchSectionAt(s, i)
                  ELSE MatchIpcAt(s, i)
             at == IF pattern = "_SECTION_PATTERN" THEN m.end - Len(m.raw) ELSE i
         IN  IF m = NoMatch THEN MentionsAt(pattern, s, i + 1, id)
             ELSE (IF normalize_to_ipc(m.raw) = id THEN {at} ELSE {})
                      \cup MentionsAt(pattern, s, m.end, id)

Earliest(positions) == CHOOSE p \in positions : \A q \in positions : p <= q

\* Where id is first mentioned in the text, by either pattern.
FirstMention(s, id) ==
    Earliest(MentionsAt("_SECTION_PATTERN", s, 1, id)
                 \cup MentionsAt("_IPC_PATTERN", s, 1, id))

\* When the scan first sees id: every match of the keyword pattern is seen
\* before any match of the IPC pattern, and the matches of one pattern
\* left to right.
FirstSeen(s, id) ==
    IF MentionsAt("_SECTION_PATTERN", s, 1, id) # {}
    THEN Earliest(MentionsAt("_SECTION_PATTERN", s, 1, id))
    ELSE Len(s) + Earliest(MentionsAt("_IPC_PATTERN", s, 1, id))

\* C12 (as claimed): the hits come in non-increasing order of count, and
\* of two hits of equal count the one whose id is first mentioned earlier
\* in the text comes first, whichever pattern matched it.
C12_TiesInTextOrder ==
    hits # NotCalled =>
        \A i, j \in DOMAIN hits[1] :
            i < j =>
                /\ hits[1][i].count >= hits[1][j].count
                /\ hits[1][i].count = hits[1][j].count =>
                       FirstMention(text, hits[1][i].statute_id)
                           < FirstMention(text, hits[1][j].statute_id)

\* C12 (amended): the hits come in non-increasing order of count, and of
\* two hits of equal count the one the scan saw first comes first: an id
\* the keyword pattern matched before an id only the IPC pattern matched,
\* and within one pattern the id mentioned earlier in the text.
C12_TiesInScanOrder ==
    hits # NotCalled =>
        \A i, j \in DOMAIN hits[1] :
            i < j =>
                /\ hits[1][i].count >= hits[1][j].count
                /\ hits[1][i].count = hits[1][j].count =>
                       FirstSeen(text, hits[1][i].statute_id)
                           < FirstSeen(text, hits[1][j].statute_id)

\* C12's case: two hits of equal count, the first of them mentioned later
\* in the text than the second.
C12_Witness ==
    /\ hits # NotCalled
    /\ \E i, j \in DOMAIN hits[1] :
           /\ i < j
           /\ hits[1][i].count = hits[1][j].count
           /\ FirstMention(text, hits[1][i].statute_id)
                  > FirstMention(text, hits[1][j].statute_id)

(***************************************************************************)
(* Fusion reranker: src/src/graph_mapper.py                                *)
(***************************************************************************)

\* A weight of the citations below the weight of the similarity.
RegexWeightLow == Rat(3, 10)

\* The weights of the two signals, and the percentage scale.
RegexWeight == Rat(6, 10)

BertWeight == Rat(4, 10)

Hundred == Rat(100, 1)

\* dict.get(id, 0.0)
Get(probs, id) == IF id \in DOMAIN probs THEN probs[id] ELSE RatZero

\* set(regex_probs) | set(bert_probs)
AllNodesRegexOnly(rp, bp) == DOMAIN rp

AllNodes(rp, bp) == DOMAIN rp \cup DOMAIN bp

\* (0.6 * regex_probs.get(node, 0.0)) + (0.4 * bert_probs.get(node, 0.0))
FusedScoreWeightsSwapped(rp, bp, node) ==
    RatAdd(RatMul(BertWeight, Get(rp, node)), RatMul(RegexWeight, Get(bp, node)))

FusedScore(rp, bp, node) ==
    RatAdd(RatMul(RegexWeight, Get(rp, node)), RatMul(BertWeight, Get(bp, node)))

\* The fused dict, in the order the set of nodes was iterated in.
Fused(rp, bp, order) ==
    [i \in DOMAIN order |->
        [statute_id |-> order[i], score |-> FusedScore(rp, bp, order[i])]]

\* max(fused.values()) or 1.0
MaxScore(fused) ==
    LET m == RatMax({fused[i].score : i \in DOMAIN fused})
    IN  IF m = RatZero THEN RatOne ELSE m

\* key=lambda x: x[1]
ScoreKeys(fused) == [i \in DOMAIN fused |-> fused[i].score]

\* graph_based_rerank sorting without reverse=True.
graph_based_rerank_ascending(rp, bp, k, order) ==
    LET fused == Fused(rp, bp, order)
        top == Slice(StableSortAsc(fused, ScoreKeys(fused)), k)
    IN  IF fused = <<>> THEN <<>>
        ELSE [i \in DOMAIN top |->
                 [statute_id |-> top[i].statute_id,
                  probability |->
                      RatMul(RatDiv(top[i].score, MaxScore(fused)), Hundred)]]

\* graph_based_rerank cutting to top_k before it sorts.
graph_based_rerank_cut_first(rp, bp, k, order) ==
    LET fused == Fused(rp, bp, order)
        kept == Slice(fused, k)
        top == StableSortDesc(kept, ScoreKeys(kept))
    IN  IF fused = <<>> THEN <<>>
        ELSE [i \in DOMAIN top |->
                 [statute_id |-> top[i].statute_id,
                  probability |->
                      RatMul(RatDiv(top[i].score, MaxScore(fused)), Hundred)]]

\* order: the order in which `for node in all_nodes` visits the set, a
\* permutation of AllNodes(rp, bp) the caller does not control.
graph_based_rerank(rp, bp, k, order) ==
    LET fused == Fused(rp, bp, order)
        top == Slice(StableSortDesc(fused, ScoreKeys(fused)), k)
    IN  IF fused = <<>> THEN <<>>
        ELSE [i \in DOMAIN top |->
                 [statute_id |-> top[i].statute_id,
                  probability |->
                      RatMul(RatDiv(top[i].score, MaxScore(fused)), Hundred)]]

(***************************************************************************)
(* The reranker on bounded probability maps.                               *)
(***************************************************************************)

\* Largest top_k tried; the smallest is -1.
MaxTopK == 3

FusionIds ==
    { <<"I", "P", "C", "_", "4", "2", "0">>,
      <<"I", "P", "C", "_", "3", "0", "2">>,
      <<"I", "P", "C", "_", "3", "4">> }

\* Probabilities of [0, 1].
ProbValues == {RatZero, Rat(1, 2), RatOne}

\* The dicts from some of ids to ProbValues.
ProbMapsOver(ids) == UNION {[S -> ProbValues] : S \in SUBSET ids}

InitFusion ==
    /\ regex_probs \in ProbMapsOver(FusionIds)
    /\ bert_probs \in ProbMapsOver(FusionIds)
    /\ top_k \in -1..MaxTopK
    /\ ranked = NotCalled
    /\ swapped = NotCalled
    /\ IdleNormalize /\ IdleRegex /\ IdleJaccard /\ IdlePipeline

\* ranked = graph_based_rerank(regex_probs, bert_probs, top_k)
Rerank ==
    /\ ranked = NotCalled
    /\ \E order \in Orders(AllNodes(regex_probs, bert_probs)) :
           ranked' = Returned(graph_based_rerank(regex_probs, bert_probs, top_k, order))
    /\ UNCHANGED <<regex_probs, bert_probs, top_k, swapped,
                   varsNormalize, varsRegex, varsJaccard, varsPipeline>>

\* swapped = graph_based_rerank(bert_probs, regex_probs, top_k)
RerankSwapped ==
    /\ swapped = NotCalled
    /\ \E order \in Orders(AllNodes(bert_probs, regex_probs)) :
           swapped' = Returned(graph_based_rerank(bert_probs, regex_probs, top_k, order))
    /\ UNCHANGED <<regex_probs, bert_probs, top_k, ranked,
                   varsNormalize, varsRegex, varsJaccard, varsPipeline>>

NextFusion == Rerank \/ RerankSwapped

SpecFusion == InitFusion /\ [][NextFusion]_vars

\* The ids and the probabilities of a result list.
IdsOf(res) == {res[i].statute_id : i \in DOMAIN res}

ProbabilitiesOf(res) == {res[i].probability : i \in DOMAIN res}

\* The ids of either argument.
UnionIds == DOMAIN regex_probs \cup DOMAIN bert_probs

\* Some id has a positive value in one of the two maps.
SomePositive ==
    \/ \E id \in DOMAIN regex_probs : regex_probs[id] # RatZero
    \/ \E id \in DOMAIN bert_probs : bert_probs[id] # RatZero

\* C2 (as claimed): whenever graph_based_rerank returns a non-empty list,
\* the maximum probability in it is exactly 100.0.
C2_MaxIsHundred ==
    (ranked # NotCalled /\ ranked[1] # <<>>) =>
        RatMax(ProbabilitiesOf(ranked[1])) = Hundred

\* C2 (amended): whenever graph_based_rerank returns a non-empty list, its
\* maximum probability is exactly 100.0 if some id has a positive value in
\* either map, and every probability is 0.0 if all the values are 0.
C2_MaxIsHundredUnlessAllZero ==
    (ranked # NotCalled /\ ranked[1] # <<>>) =>
        IF SomePositive
        THEN RatMax(ProbabilitiesOf(ranked[1])) = Hundred
        ELSE ProbabilitiesOf(ranked[1]) = {RatZero}

\* C2's case: a list cut by top_k, of several different probabilities, the
\* largest 100.0.
C2_Witness ==
    /\ ranked # NotCalled
    /\ Len(ranked[1]) >= 2
    /\ Len(ranked[1]) < Cardinality(UnionIds)
    /\ Cardinality(ProbabilitiesOf(ranked[1])) >= 2
    /\ RatMax(ProbabilitiesOf(ranked[1])) = Hundred

\* C4 (as claimed): graph_based_rerank(A, B, top_k) and
\* graph_based_rerank(B, A, top_k) give every id the same probability and
\* the same rank, up to the order among exact ties: the probabilities are
\* the same rank by rank, and an id in both lists has one probability.
C4_Commutative ==
    (ranked # NotCalled /\ swapped # NotCalled) =>
        /\ [i \in DOMAIN ranked[1] |-> ranked[1][i].probability]
               = [i \in DOMAIN swapped[1] |-> swapped[1][i].probability]
        /\ \A i \in DOMAIN ranked[1], j \in DOMAIN swapped[1] :
               ranked[1][i].statute_id = swapped[1][j].statute_id =>
                   ranked[1][i].probability = swapped[1][j].probability

\* C4 (amended): the two calls return lists of the same length and, when
\* top_k is at least the number of ids in the union of the maps, of the
\* same set of ids (the union); probabilities and ranks may differ.
C4_SameIdsEitherOrder ==
    (ranked # NotCalled /\ swapped # NotCalled) =>
        /\ Len(ranked[1]) = Len(swapped[1])
        /\ top_k >= Cardinality(UnionIds) =>
               (IdsOf(ranked[1]) = UnionIds /\ IdsOf(swapped[1]) = UnionIds)

\* C4's case: both orders of the arguments, nothing cut, the same ids and
\* an id whose probability differs between the two.
C4_Witness ==
    /\ ranked # NotCalled
    /\ swapped # NotCalled
    /\ top_k >= Cardinality(UnionIds)
    /\ Cardinality(UnionIds) >= 2
    /\ IdsOf(ranked[1]) = IdsOf(swapped[1])
    /\ \E i \in DOMAIN ranked[1], j \in DOMAIN swapped[1] :
           /\ ranked[1][i].statute_id = swapped[1][j].statute_id
           /\ ranked[1][i].probability # swapped[1][j].probability

\* 0.6 * regex_probs.get(id, 0) + 0.4 * bert_probs.get(id, 0), from the
\* arguments.
ExpectedFused(id) ==
    RatAdd(RatMul(Rat(6, 10), IF id \in DOMAIN regex_probs THEN regex_probs[id] ELSE RatZero),
           RatMul(Rat(4, 10), IF id \in DOMAIN bert_probs THEN bert_probs[id] ELSE RatZero))

\* The maximum fused score over the union of ids, 1.0 when it is 0.
ExpectedMax ==
    LET m == RatMax({ExpectedFused(id) : id \in UnionIds})
    IN  IF m = RatZero THEN RatOne ELSE m

\* C10: every probability graph_based_rerank returns is
\* 100 * (0.6 * regex_probs.get(id, 0) + 0.4 * bert_probs.get(id, 0)) / M,
\* M the maximum fused score over the union of ids (1.0 when that is 0).
C10_ProbabilityFormula ==
    ranked # NotCalled =>
        \A i \in DOMAIN ranked[1] :
            RatMul(ranked[1][i].probability, ExpectedMax)
                = RatMul(Hundred, ExpectedFused(ranked[1][i].statute_id))

\* C10's case: an id in regex_probs alone, with value 1.0, below another
\* id of fused score 1.0: its probability is 100 * 0.6 / 1.0.
C10_Witness ==
    /\ ranked # NotCalled
    /\ \E i \in DOMAIN ranked[1] :
           /\ ranked[1][i].statute_id \in DOMAIN regex_probs \ DOMAIN bert_probs
           /\ regex_probs[ranked[1][i].statute_id] = RatOne
           /\ ExpectedMax = RatOne
           /\ ranked[1][i].probability = Rat(60, 1)

\* C13: for every top_k >= 0, graph_based_rerank returns exactly
\* min(top_k, number of ids in the union of the two maps) results, no id
\* twice, the probabilities in non-increasing order and each in [0, 100],
\* and no id left out has a fused score strictly higher than one returned.
C13_TopKBest ==
    (ranked # NotCalled /\ top_k >= 0) =>
        LET res == ranked[1]
            n == Cardinality(UnionIds)
        IN  /\ Len(res) = IF top_k < n THEN top_k ELSE n
            /\ \A i, j \in DOMAIN res :
                   i < j =>
                       /\ res[i].statute_id # res[j].statute_id
                       /\ ~RatGt(res[j].probability, res[i].probability)
            /\ \A i \in DOMAIN res :
                   /\ res[i].probability.n >= 0
                   /\ res[i].probability.d > 0
                   /\ ~RatGt(res[i].probability, Hundred)
            /\ IdsOf(res) \subseteq UnionIds
            /\ \A out \in UnionIds \ IdsOf(res) :
                   \A i \in DOMAIN res :
                       ~RatGt(ExpectedFused(out), ExpectedFused(res[i].statute_id))

\* C13's case: top_k cuts the list to two results of different
\* probabilities, and the id left out scores strictly less than both.
C13_Witness ==
    /\ ranked # NotCalled
    /\ top_k = 2
    /\ Len(ranked[1]) = 2
    /\ Cardinality(UnionIds) = 3
    /\ RatGt(ranked[1][1].probability, ranked[1][2].probability)
    /\ \A out \in UnionIds \ IdsOf(ranked[1]) :
           RatGt(ExpectedFused(ranked[1][2].statute_id), ExpectedFused(out))

(***************************************************************************)
(* Lexical similarity mapper: src/src/bert_mapper.py                       *)
(***************************************************************************)

\* _STOP
StopWords ==
    { <<"t", "h", "e">>, <<"a">>, <<"a", "n">>, <<"a", "n", "d">>, <<"o", "r">>,
      <<"t", "o">>, <<"o", "f">>, <<"i", "n">>, <<"i", "s">>, <<"f", "o", "r">>,
      <<"w", "i", "t", "h">>, <<"u", "n", "d", "e", "r">>, <<"o", "n">> }

\* [A-Za-z0-9_]
WordCharSet == LowerSet \cup UpperSet \cup DigitSet \cup {"_"}

\* _WORD_RE.findall(s): the maximal runs of word characters, left to right
RECURSIVE WordsFrom(_, _)
WordsFrom(s, i) ==
    IF i > Len(s) THEN <<>>
    ELSE IF s[i] \in WordCharSet
         THEN <<SubSeq(s, i, SkipChars(s, i, WordCharSet) - 1)>>
                  \o WordsFrom(s, SkipChars(s, i, WordCharSet))
         ELSE WordsFrom(s, i + 1)

IsNotStopWord(t) == Lower(t) \notin StopWords

\* _tokenize(text)
tokenize(s) ==
    LET kept == SelectSeq(WordsFrom(Lower(s), 1), IsNotStopWord)
    IN  [i \in DOMAIN kept |-> Lower(kept[i])]

\* set(_tokenize(text))
TokenSetOf(s) ==
    LET tokens == tokenize(s)
    IN  {tokens[i] : i \in DOMAIN tokens}

\* _jaccard with the union's size taken as len(x) + len(y).
jaccard_union_as_sum(x, y) ==
    IF x = {} \/ y = {} THEN RatZero
    ELSE Rat(Cardinality(x \cap y), Cardinality(x) + Cardinality(y))

\* _jaccard(a, b)
jaccard(x, y) ==
    IF x = {} \/ y = {} THEN RatZero
    ELSE IF Cardinality(x \cup y) = 0 THEN RatZero
         ELSE Rat(Cardinality(x \cap y), Cardinality(x \cup y))

(***************************************************************************)
(* The similarity on bounded token sets.                                   *)
(***************************************************************************)

\* Most fragments a query or lookup text is made of.
MaxWords == 2

\* The pieces of query texts and lookup texts: words in either case, stop
\* words, punctuation, an id.
WordFragments ==
    << <<"T", "h", "e", " ">>,
       <<"c", "h", "e", "a", "t", "i", "n", "g", " ">>,
       <<"C", "h", "e", "a", "t", "i", "n", "g", ",", " ">>,
       <<"o", "f", " ", "p", "r", "o", "p", "e", "r", "t", "y">>,
       <<" ", "I", "P", "C", "_", "4", "2", "0">>,
       <<"m", "u", "r", "d", "e", "r">> >>

LookupTexts ==
    UNION {{Flatten([i \in 1..k |-> WordFragments[f[i]]]) :
               f \in [1..k -> DOMAIN WordFragments]} : k \in 0..MaxWords}

\* The token sets a query text or a catalog entry's lookup text produces.
TokenSets == {TokenSetOf(t) : t \in LookupTexts}

InitJaccard ==
    /\ a \in TokenSets
    /\ b \in TokenSets
    /\ score = NotCalled
    /\ IdleNormalize /\ IdleRegex /\ IdleFusion /\ IdlePipeline

\* score = _jaccard(a, b)
Similarity ==
    /\ score = NotCalled
    /\ score' = Returned(jaccard(a, b))
    /\ UNCHANGED <<a, b, varsNormalize, varsRegex, varsFusion, varsPipeline>>

NextJaccard == Similarity

SpecJaccard == InitJaccard /\ [][NextJaccard]_vars

\* C9 (as claimed): _jaccard(a, a) is 1.0 for every token set a that a
\* query text or a catalog entry can produce.
C9_SelfSimilarityIsOne ==
    (score # NotCalled /\ a = b) => score[1] = RatOne

\* C9 (amended): _jaccard(a, a) is 1.0 for every non-empty token set a, and
\* 0.0 for the empty one (the token set of an empty or stop-word-only text).
C9_SelfSimilarityIsOneUnlessEmpty ==
    (score # NotCalled /\ a = b) =>
        score[1] = IF a = {} THEN RatZero ELSE RatOne

\* C9's case: a set of several tokens scored against itself.
C9_Witness ==
    /\ score # NotCalled
    /\ a = b
    /\ Cardinality(a) >= 2
    /\ score[1] = RatOne

(***************************************************************************)
(* Probability maps, the catalog and the orchestrator:                     *)
(* src/src/regex_mapper.py, src/src/bert_mapper.py,                        *)
(* src/src/statute_ensemble.py                                             *)
(***************************************************************************)

\* top_k of map_sections and of the orchestrator's call of the reranker.
MapSectionsTopK == 20

PipelineTopK == 10

\* The last position of seq whose statute_id is id: in a dict
\* comprehension the last entry of a key wins.
LastOf(seq, id) ==
    CHOOSE i \in DOMAIN seq :
        /\ seq[i].statute_id = id
        /\ \A j \in DOMAIN seq : seq[j].statute_id = id => j <= i

\* regex_probability_map(hits)
regex_probability_map(hs) ==
    LET max_count == CHOOSE m \in {hs[i].count : i \in DOMAIN hs} :
                         \A i \in DOMAIN hs : hs[i].count <= m
    IN  IF hs = <<>> THEN EmptyMap
        ELSE IF max_count = 0 THEN EmptyMap
             ELSE [id \in IdsOf(hs) |-> Rat(hs[LastOf(hs, id)].count, max_count)]

\* bert_probability_map(matches)
bert_probability_map(ms) ==
    LET max_score == RatMax({ms[i].score : i \in DOMAIN ms})
    IN  IF ms = <<>> THEN EmptyMap
        ELSE IF ~RatGt(max_score, RatZero) THEN EmptyMap
             ELSE [id \in IdsOf(ms) |-> RatDiv(ms[LastOf(ms, id)].score, max_score)]

\* A row of the catalog after BertSectionMapper.__init__: the columns read,
\* lookup_text and token_set.
LoadRow(row) ==
    LET lookup_text == row.Offense \o <<" ">> \o row.Description \o <<" ">> \o row.id
    IN  [id |-> row.id, Offense |-> row.Offense, Description |-> row.Description,
         lookup_text |-> lookup_text, token_set |-> TokenSetOf(lookup_text)]

\* StatutePipeline(statutes_csv_path): pd.read_csv raises on a source it
\* cannot read, and the constructor with it; no other check is made.
StatutePipeline(source) ==
    IF ~source.readable THEN [state |-> "failed", df |-> <<>>]
    ELSE [state |-> "ready",
          df |-> [i \in DOMAIN source.rows |-> LoadRow(source.rows[i])]]

ScoreIsPositive(m) == RatGt(m.score, RatZero)

ScoreIsAny(m) == TRUE

\* Every row scored against the query, in catalog order.
ScoredRows(df, case_text) ==
    LET query_tokens == TokenSetOf(case_text)
    IN  [i \in DOMAIN df |->
            [statute_id |-> df[i].id, section_title |-> df[i].Offense,
             score |-> jaccard(query_tokens, df[i].token_set)]]

\* map_sections keeping the rows of score 0.
map_sections_keep_zero(df, case_text, k) ==
    LET scored == SelectSeq(ScoredRows(df, case_text), ScoreIsAny)
    IN  Slice(StableSortDesc(scored, ScoreKeys(scored)), k)

\* BertSectionMapper.map_sections(case_text, top_k)
map_sections(df, case_text, k) ==
    LET scored == SelectSeq(ScoredRows(df, case_text), ScoreIsPositive)
    IN  Slice(StableSortDesc(scored, ScoreKeys(scored)), k)

\* self.df after map_sections with _jaccard intersecting its second
\* argument in place: the cached token set of each row is cut down to the
\* tokens of the query.
df_after_map_sections_in_place(df, case_text) ==
    [i \in DOMAIN df |->
        [df[i] EXCEPT !.token_set = df[i].token_set \cap TokenSetOf(case_text)]]

\* self.df after map_sections: iterrows only reads the rows, and _jaccard
\* builds new sets (a & b, a | b) from the two it is given.
df_after_map_sections(df, case_text) == df

(***************************************************************************)
(* The pipeline on bounded catalogs and case texts.                        *)
(***************************************************************************)

\* Most rows of a catalog source.
MaxRows == 2

\* StatutePipeline.run invocations on the one pipeline.
MaxRuns == 2

\* Rows a catalog source is made of; a row may occur twice in a source.
CatalogRows ==
    << [id |-> <<"I", "P", "C", "_", "4", "2", "0">>,
        Offense |-> <<"C", "h", "e", "a", "t", "i", "n", "g">>,
        Description |-> <<"d", "i", "s", "h", "o", "n", "e", "s", "t", "l", "y", " ",
                          "i", "n", "d", "u", "c", "i", "n", "g">>],
       [id |-> <<"I", "P", "C", "_", "3", "0", "2">>,
        Offense |-> <<"M", "u", "r", "d", "e", "r">>,
        Description |-> <<>>] >>

CatalogSources ==
    {[readable |-> FALSE, rows |-> <<>>]}
    \cup {[readable |-> TRUE, rows |-> [i \in DOMAIN f |-> CatalogRows[f[i]]]] :
             f \in UNION {[1..k -> DOMAIN CatalogRows] : k \in 0..MaxRows}}

RunTexts ==
    { <<>>,
      <<"S", "e", "c", "t", "i", "o", "n", " ", "4", "2", "0", " ", "I", "P", "C", " ",
        "c", "h", "e", "a", "t", "i", "n", "g", " ", "m", "u", "r", "d", "e", "r">>,
      <<"s", ".", "4", "2", "0", " ", "s", ".", "3", "0", "2">> }

\* The ids the catalog rows and the case texts name.
PipelineIds == {CatalogRows[i].id : i \in DOMAIN CatalogRows}

\* The iteration orders of a process: the hash of a string is fixed when the
\* process starts, so a set of ids is iterated in the same order every time
\* it is built, and in any order from one process to another.
IterationOrders(ids) ==
    {f \in [SUBSET ids -> UNION {Orders(S) : S \in SUBSET ids}] :
        \A S \in SUBSET ids : f[S] \in Orders(S)}

\* An invocation not started.
IdleRun ==
    [pc |-> "idle", case_text |-> <<>>, regex_hits |-> NotCalled,
     regex_probs |-> NotCalled, bert_matches |-> NotCalled, bert_probs |-> NotCalled,
     top_sections |-> NotCalled]

InitPipeline ==
    /\ pipeline = [state |-> "none", df |-> <<>>]
    /\ runs = [r \in 1..MaxRuns |-> IdleRun]
    /\ hash_order \in IterationOrders(PipelineIds)
    /\ IdleNormalize /\ IdleRegex /\ IdleFusion /\ IdleJaccard

otherThanPipeline == <<varsNormalize, varsRegex, varsFusion, varsJaccard>>

\* get_pipeline(): StatutePipeline(path), once
Construct ==
    /\ pipeline.state = "none"
    /\ \E source \in CatalogSources : pipeline' = StatutePipeline(source)
    /\ UNCHANGED <<runs, hash_order, otherThanPipeline>>

\* pipeline.run(case_text) is entered
Call(r) ==
    /\ pipeline.state = "ready"
    /\ runs[r].pc = "idle"
    /\ \E t \in RunTexts :
           runs' = [runs EXCEPT ![r].pc = "regex", ![r].case_text = t]
    /\ UNCHANGED <<pipeline, hash_order, otherThanPipeline>>

\* regex_hits and regex_probs
RegexStage(r) ==
    /\ runs[r].pc = "regex"
    /\ LET hs == map_statutes_with_regex(runs[r].case_text)
       IN  runs' = [runs EXCEPT ![r].pc = "similarity",
                                ![r].regex_hits = Returned(hs),
                                ![r].regex_probs = Returned(regex_probability_map(hs))]
    /\ UNCHANGED <<pipeline, hash_order, otherThanPipeline>>

\* bert_matches and bert_probs
SimilarityStage(r) ==
    /\ runs[r].pc = "similarity"
    /\ LET ms == map_sections(pipeline.df, runs[r].case_text, MapSectionsTopK)
       IN  runs' = [runs EXCEPT ![r].pc = "fuse",
                                ![r].bert_matches = Returned(ms),
                                ![r].bert_probs = Returned(bert_probability_map(ms))]
    /\ pipeline' = [pipeline EXCEPT
                        !.df = df_after_map_sections(pipeline.df, runs[r].case_text)]
    /\ UNCHANGED <<hash_order, otherThanPipeline>>

\* top10 and the return; the summaries are the summarizer's, made from
\* case_text and top10 and read by nothing here.
FuseStage(r) ==
    /\ runs[r].pc = "fuse"
    /\ LET order == hash_order[AllNodes(runs[r].regex_probs[1], runs[r].bert_probs[1])]
       IN  runs' = [runs EXCEPT
                      ![r].pc = "done",
                      ![r].top_sections =
                          Returned(graph_based_rerank(runs[r].regex_probs[1],
                                                      runs[r].bert_probs[1],
                                                      PipelineTopK, order))]
    /\ UNCHANGED <<pipeline, hash_order, otherThanPipeline>>

NextPipeline ==
    \/ Construct
    \/ \E r \in 1..MaxRuns :
           Call(r) \/ RegexStage(r) \/ SimilarityStage(r) \/ FuseStage(r)

SpecPipeline == InitPipeline /\ [][NextPipeline]_vars

\* C3 (as claimed): no pipeline is constructed over a catalog in which two
\* rows share an id: loading such a source fails.
C3_DuplicateIdsRejected ==
    pipeline.state = "ready" =>
        \A i, j \in DOMAIN pipeline.df :
            i # j => pipeline.df[i].id # pipeline.df[j].id

\* The results an invocation has so far are all empty.
EmptySoFar(run) ==
    /\ run.regex_hits \in {NotCalled, Returned(<<>>)}
    /\ run.regex_probs \in {NotCalled, Returned(EmptyMap)}
    /\ run.bert_matches \in {NotCalled, Returned(<<>>)}
    /\ run.bert_probs \in {NotCalled, Returned(EmptyMap)}
    /\ run.top_sections \in {NotCalled, Returned(<<>>)}

\* C5: run on the empty string yields empty results at every stage, for
\* any catalog: regex_hits, bert_matches, both probability maps and
\* top_sections are empty (a division by an empty or zero maximum would
\* stop the evaluation of the stage's action).
C5_EmptyTextEmptyResults ==
    \A r \in 1..MaxRuns :
        (runs[r].pc # "idle" /\ runs[r].case_text = <<>>) =>
            /\ EmptySoFar(runs[r])
            /\ runs[r].pc = "done" =>
                   /\ runs[r].regex_hits = Returned(<<>>)
                   /\ runs[r].regex_probs = Returned(EmptyMap)
                   /\ runs[r].bert_matches = Returned(<<>>)
                   /\ runs[r].bert_probs = Returned(EmptyMap)
                   /\ runs[r].top_sections = Returned(<<>>)

\* C5's case: over a catalog of several rows, a finished run on the empty
\* string beside a finished run whose text did find sections.
C5_Witness ==
    /\ Len(pipeline.df) >= 2
    /\ \E r, q \in 1..MaxRuns :
           /\ runs[r].pc = "done"
           /\ runs[r].case_text = <<>>
           /\ runs[r].top_sections = Returned(<<>>)
           /\ runs[q].pc = "done"
           /\ runs[q].top_sections # Returned(<<>>)

\* The rows a loaded catalog was read from.
RowsOf(df) ==
    [i \in DOMAIN df |->
        [id |-> df[i].id, Offense |-> df[i].Offense, Description |-> df[i].Description]]

\* The catalog loaded afresh from the rows df was read from.
FreshCatalog(df) == StatutePipeline([readable |-> TRUE, rows |-> RowsOf(df)]).df

\* What run(case_text) returns when it is the only invocation on the
\* catalog df, in a process of iteration orders orders.
RunAlone(df, case_text, orders) ==
    LET regex_hits_alone == map_statutes_with_regex(case_text)
        regex_probs_alone == regex_probability_map(regex_hits_alone)
        bert_matches_alone == map_sections(df, case_text, MapSectionsTopK)
        bert_probs_alone == bert_probability_map(bert_matches_alone)
        top10 == graph_based_rerank(regex_probs_alone, bert_probs_alone, PipelineTopK,
                                    orders[AllNodes(regex_probs_alone, bert_probs_alone)])
    IN  [pc |-> "done", case_text |-> case_text,
         regex_hits |-> Returned(regex_hits_alone),
         regex_probs |-> Returned(regex_probs_alone),
         bert_matches |-> Returned(bert_matches_alone),
         bert_probs |-> Returned(bert_probs_alone),
         top_sections |-> Returned(top10)]

\* What invocation r has so far is what it has when it runs alone on the
\* freshly loaded catalog, and all of it once r has returned.
AsIfAlone(r) ==
    LET alone == RunAlone(FreshCatalog(pipeline.df), runs[r].case_text, hash_order)
    IN  /\ runs[r].regex_hits \in {NotCalled, alone.regex_hits}
        /\ runs[r].regex_probs \in {NotCalled, alone.regex_probs}
        /\ runs[r].bert_matches \in {NotCalled, alone.bert_matches}
        /\ runs[r].bert_probs \in {NotCalled, alone.bert_probs}
        /\ runs[r].top_sections \in {NotCalled, alone.top_sections}
        /\ runs[r].pc = "done" => runs[r] = alone

\* No step changes the pipeline once it is constructed.
CatalogUnchanged == pipeline.state = "ready" => pipeline' = pipeline

C14_CitationsDominate ==
    \A r \in 1..MaxRuns :
        (runs[r].pc = "done" /\ runs[r].regex_hits # Returned(<<>>)) =>
            LET cited == runs[r].regex_probs[1]
                top10 == runs[r].top_sections[1]
            IN  /\ \E id \in DOMAIN cited : cited[id] = RatOne
                /\ top10 # <<>>
                /\ top10[1].probability = Hundred
                /\ top10[1].statute_id \in DOMAIN cited
                /\ Len(runs[r].regex_hits[1]) = 1 =>
                       top10[1].statute_id = runs[r].regex_hits[1][1].statute_id

\* C14's case: the text cites one statute and is lexically closest to
\* another; the cited one is first with 100.0, the other one second.
C14_Witness ==
    \E r \in 1..MaxRuns :
        /\ runs[r].pc = "done"
        /\ Len(runs[r].regex_hits[1]) = 1
        /\ Len(runs[r].top_sections[1]) >= 2
        /\ runs[r].top_sections[1][1].statute_id = runs[r].regex_hits[1][1].statute_id
        /\ runs[r].top_sections[1][1].probability = Hundred
        /\ runs[r].top_sections[1][2].statute_id \notin DOMAIN runs[r].regex_probs[1]
        /\ runs[r].bert_probs[1][runs[r].top_sections[1][2].statute_id] = RatOne

====
